---- MODULE Spec2Model ----
(***************************************************************************)
(* The response cache of dnscrypt-proxy (plugin_cache.go): the reader      *)
(* plugin PluginCache, the writer plugin PluginCacheResponse, the key      *)
(* derivation computeCacheKey and the shared handle cachedResponses with   *)
(* its sync.Once guard.  Every task runs one plugin invocation at a time;  *)
(* tasks interleave at the accesses to shared memory (the handle, the     *)
(* store, the resource records on the heap, the clock).                    *)
(***************************************************************************)
EXTENDS Integers, Sequences, FiniteSets, TLC

\* ------------------------------------------------------------ bounds
MaxCalls == 2    \* plugin invocations in a behaviour
MaxTime == 2     \* the clock runs over 0..MaxTime (seconds)

\* The pipeline tasks that run plugin invocations concurrently: two, each
\* running one invocation after another.
Procs == {1, 2}

\* ------------------------------------------------------------ constants
StaleResponseTTL == 30

RcodeSuccess == 0
RcodeNameError == 3
RcodeNotAuth == 9

PluginsActionContinue == "PluginsActionContinue"
PluginsActionSynth == "PluginsActionSynth"

\* A nil pointer / absent value is the empty sequence, a present one <<v>>.
Nil == <<>>
Ref(v) == <<v>>
Val(o) == o[1]

\* ------------------------------------------------------------ inputs
\* Question names as raw bytes: "a", "A" and "b".
NameLower == <<97>>
NameUpper == <<65>>
NameOther == <<98>>

Question(name, qtype, qclass) == [Name |-> name, Qtype |-> qtype, Qclass |-> qclass]

\* What a query asks and whether DNSSEC was requested for it.
Lookup(name) == [question |-> Question(name, 1, 1), dnssec |-> FALSE]

\* The lookups of the queries.
QueryLookups == {Lookup(NameUpper), Lookup(NameOther)}

\* Upstream responses: status, truncation, and the (Ttl, Rdata) of the
\* records of the answer and authority sections.
RR(ttl, rdata) == [Ttl |-> ttl, Rdata |-> rdata]

PositiveResponse ==
    [Rcode |-> RcodeSuccess, Truncated |-> FALSE,
     Answer |-> <<RR(1, "x"), RR(3, "y")>>, Ns |-> <<>>]

NegativeResponse ==
    [Rcode |-> RcodeNameError, Truncated |-> FALSE,
     Answer |-> <<>>, Ns |-> <<RR(0, "soa")>>]

UncacheableResponses ==
    { [Rcode |-> 2, Truncated |-> FALSE,          \* server failure
       Answer |-> <<>>, Ns |-> <<>>],
      [Rcode |-> RcodeSuccess, Truncated |-> TRUE,
       Answer |-> <<RR(3, "x")>>, Ns |-> <<>>] }

\* Configured TTL bounds (cacheMinTTL, cacheMaxTTL, cacheNegMinTTL, cacheNegMaxTTL).
Configs ==
    { [cacheMinTTL |-> 1, cacheMaxTTL |-> 2, cacheNegMinTTL |-> 1, cacheNegMaxTTL |-> 1] }

\* ------------------------------------------------------------ pure functions
\* NormalizeRawQName: ASCII upper-case letters become lower-case, every other
\* byte is kept.
NormalizeByte_Keep(b) == b     \* (mutant) no byte is lowered

NormalizeByte(b) == IF b >= 65 /\ b <= 90 THEN b + 32 ELSE b

NormalizeRawQName(name) == [i \in 1..Len(name) |-> NormalizeByte(name[i])]

\* binary.LittleEndian.PutUint16
PutUint16(v) == <<v % 256, (v \div 256) % 256>>

\* SHA-512/256 as a collision-free digest: the digest of a byte string is
\* represented by the byte string it was computed from.
Sum512_256(bytes) == bytes

\* (mutant) the key without the name
computeCacheKey_NoName(pluginsState, msg) ==
    LET question == msg.Question[1]
    IN  Sum512_256(PutUint16(question.Qtype) \o PutUint16(question.Qclass)
                     \o <<IF pluginsState.dnssec THEN 1 ELSE 0>>)

\* (mutant) the key without the flag byte
computeCacheKey_NoFlag(pluginsState, msg) ==
    LET question == msg.Question[1]
        tmp == PutUint16(question.Qtype) \o PutUint16(question.Qclass) \o <<0>>
    IN  Sum512_256(tmp \o NormalizeRawQName(question.Name))

\* Lines 29-46: the digest of the 5-byte header (type, class, flag) followed
\* by the normalized name of the first question.
computeCacheKey(pluginsState, msg) ==
    LET question == msg.Question[1]
        tmp == PutUint16(question.Qtype) \o PutUint16(question.Qclass)
                 \o <<IF pluginsState.dnssec THEN 1 ELSE 0>>
    IN  Sum512_256(tmp \o NormalizeRawQName(question.Name))

\* The smallest Ttl of the records at the addresses addrs of heap h.
RECURSIVE MinTtlOf(_, _)
MinTtlOf(h, addrs) ==
    IF Len(addrs) = 1 THEN h[addrs[1]].Ttl
    ELSE LET rest == MinTtlOf(h, Tail(addrs))
         IN  IF h[addrs[1]].Ttl < rest THEN h[addrs[1]].Ttl ELSE rest

Clamp(v, lo, hi) == IF v < lo THEN lo ELSE IF v > hi THEN hi ELSE v

\* getMinTTL: a response is positive when it is a success with an answer
\* record and negative otherwise; the smallest Ttl of the relevant section,
\* clamped into the matching [min, max].
getMinTTL(h, msg, minTTL, maxTTL, negMinTTL, negMaxTTL) ==
    IF msg.Rcode = RcodeSuccess /\ Len(msg.Answer) > 0
    THEN Clamp(MinTtlOf(h, msg.Answer), minTTL, maxTTL)
    ELSE IF Len(msg.Ns) > 0
         THEN Clamp(MinTtlOf(h, msg.Ns), negMinTTL, negMaxTTL)
         ELSE negMinTTL

\* The addresses of all records of a message.
RRAddrs(msg) == msg.Answer \o msg.Ns

Range(s) == {s[i] : i \in 1..Len(s)}

\* updateTTL(msg, expiration) at time t: every record of msg gets the time
\* remaining until expiration, 0 once it has passed.
Remaining(expiration, t) == IF expiration > t THEN expiration - t ELSE 0

updateTTL(h, msg, expiration, t) ==
    [a \in 1..Len(h) |->
        IF a \in Range(RRAddrs(msg))
        THEN [h[a] EXCEPT !.Ttl = Remaining(expiration, t)]
        ELSE h[a]]

\* dns.Msg.Copy: a deep copy, whose records are new objects appended to the
\* heap.  CopyHeap is the heap after the copy, CopyMsg the copy.
CopyHeap(h, msg) == h \o [i \in 1..Len(RRAddrs(msg)) |-> h[RRAddrs(msg)[i]]]

\* (mutant) the copy shares the records of the message it was made from
CopyMsg_Alias(h, msg) == msg

CopyMsg(h, msg) ==
    [msg EXCEPT !.Answer = [i \in 1..Len(msg.Answer) |-> Len(h) + i],
                !.Ns = [i \in 1..Len(msg.Ns) |-> Len(h) + Len(msg.Answer) + i]]

\* The records a message holds, by value.
Records(h, msg) == [i \in 1..Len(RRAddrs(msg)) |-> h[RRAddrs(msg)[i]]]

\* ------------------------------------------------------------ the store
\* sievecache.NewSharded: a capacity that is not positive is an error,
\* otherwise an empty store of that capacity.
NewSharded(capacity) ==
    IF capacity <= 0
    THEN [cache |-> Nil, err |-> Ref("capacity must be greater than 0")]
    ELSE [cache |-> Ref([capacity |-> capacity, entries |-> <<>>]), err |-> Nil]

\* ShardedSieveCache.Insert: the stores that may result.  An existing key is
\* replaced; a new key at capacity evicts one entry of the store's choosing.
Without(entries, k) == [x \in DOMAIN entries \ {k} |-> entries[x]]

Insert(store, key, value) ==
    IF key \in DOMAIN store.entries
    THEN { [store EXCEPT !.entries = [store.entries EXCEPT ![key] = value]] }
    ELSE IF Cardinality(DOMAIN store.entries) < store.capacity
         THEN { [store EXCEPT !.entries = (key :> value) @@ store.entries] }
         ELSE { [store EXCEPT !.entries = (key :> value) @@ Without(store.entries, victim)] :
                  victim \in DOMAIN store.entries }

\* ------------------------------------------------------------ messages
NoMsg ==
    [Id |-> 0, Response |-> FALSE, Compress |-> FALSE, Rcode |-> RcodeSuccess,
     Truncated |-> FALSE, Question |-> <<>>, Answer |-> <<>>, Ns |-> <<>>]

\* An incoming query for lookup l.
QueryMsg(l) == [NoMsg EXCEPT !.Id = 7, !.Question = <<l.question>>]

\* The upstream response r to lookup l, its records allocated at the end of
\* heap h.
ResponseMsg(h, l, r) ==
    [NoMsg EXCEPT !.Id = 5, !.Response = TRUE, !.Rcode = r.Rcode,
                  !.Truncated = r.Truncated, !.Question = <<l.question>>,
                  !.Answer = [i \in 1..Len(r.Answer) |-> Len(h) + i],
                  !.Ns = [i \in 1..Len(r.Ns) |-> Len(h) + Len(r.Answer) + i]]

\* The per-query state the pipeline hands to the plugins.
NewPluginsState(dnssec, cacheSize, cfg) ==
    [dnssec |-> dnssec, cacheSize |-> cacheSize,
     cacheMinTTL |-> cfg.cacheMinTTL, cacheMaxTTL |-> cfg.cacheMaxTTL,
     cacheNegMinTTL |-> cfg.cacheNegMinTTL, cacheNegMaxTTL |-> cfg.cacheNegMaxTTL,
     synthResponse |-> Nil, action |-> PluginsActionContinue,
     cacheHit |-> FALSE, sessionData |-> Nil]

NoPluginsState ==
    NewPluginsState(FALSE, 0,
        [cacheMinTTL |-> 0, cacheMaxTTL |-> 0, cacheNegMinTTL |-> 0, cacheNegMaxTTL |-> 0])

\* ------------------------------------------------------------ state
VARIABLES
    now,              \* time.Now(), in seconds
    cachedResponses,  \* the shared handle: cache, cacheMu, cacheOnce
    heap,             \* the resource records, by address
    calls,            \* plugin invocations so far
    attempts,         \* runs of the closure given to cacheOnce.Do: started, finished, by whom
    pc,               \* where each task is in the invocation it runs
    kind,             \* the plugin each task runs or ran last
    msg,              \* the invocation's msg argument
    pluginsState,     \* the invocation's pluginsState argument
    cachedResponse,   \* Writer local
    cacheInitError,   \* Writer local
    ret,              \* what the last invocation returned
    inserted,         \* whether the invocation called Insert
    handleAtCall,     \* the state of the handle when the invocation began
    cacheKey,         \* the local cacheKey of either Eval; empty before line 73 or 136
    inserts           \* the calls of Insert so far, in order

shared == <<now, cachedResponses, heap, calls, attempts>>
locals == <<pc, kind, msg, pluginsState, cachedResponse, cacheInitError,
            ret, inserted, handleAtCall>>
vars == <<shared, locals, cacheKey, inserts>>

\* The lifecycle state of the shared handle.
HandleState ==
    IF cachedResponses.cache # Nil THEN "Ready"
    ELSE IF attempts.finished > 0 THEN "Failed"
    ELSE IF attempts.started > 0 THEN "Constructing"
    ELSE "Uninitialized"

Init ==
    /\ now = 0
    /\ cachedResponses = [cache |-> Nil, cacheMu |-> 0,
                          cacheOnce |-> [done |-> FALSE, m |-> 0]]
    /\ heap = <<>>
    /\ calls = 0
    /\ attempts = [started |-> 0, finished |-> 0, by |-> 0]
    /\ pc = [p \in Procs |-> "idle"]
    /\ kind = [p \in Procs |-> "none"]
    /\ msg = [p \in Procs |-> NoMsg]
    /\ pluginsState = [p \in Procs |-> NoPluginsState]
    /\ cachedResponse = [p \in Procs |-> [expiration |-> 0, msg |-> NoMsg]]
    /\ cacheInitError = [p \in Procs |-> Nil]
    /\ ret = [p \in Procs |-> "none"]
    /\ inserted = [p \in Procs |-> FALSE]
    /\ handleAtCall = [p \in Procs |-> "Uninitialized"]
    /\ cacheKey = [p \in Procs |-> <<>>]
    /\ inserts = <<>>

\* The clock advances.
Tick ==
    /\ now < MaxTime
    /\ UNCHANGED <<cacheKey, inserts>>
    /\ now' = now + 1
    /\ UNCHANGED <<cachedResponses, heap, calls, attempts, locals>>

Goto(p, label) == pc' = [pc EXCEPT ![p] = label]

Return(p, value) ==
    /\ pc' = [pc EXCEPT ![p] = "idle"]
    /\ ret' = [ret EXCEPT ![p] = value]

\* ------------------------------------------------------------ the Reader
\* The pipeline invokes PluginCache.Eval on an incoming query.
InvokeReader(p) ==
    /\ pc[p] = "idle"
    /\ calls < MaxCalls
    /\ \E l \in QueryLookups, cfg \in Configs :
          /\ msg' = [msg EXCEPT ![p] = QueryMsg(l)]
          /\ pluginsState' = [pluginsState EXCEPT ![p] = NewPluginsState(l.dnssec, 1, cfg)]
    /\ calls' = calls + 1
    /\ cacheKey' = [cacheKey EXCEPT ![p] = <<>>]
    /\ UNCHANGED inserts
    /\ kind' = [kind EXCEPT ![p] = "reader"]
    /\ ret' = [ret EXCEPT ![p] = "none"]
    /\ inserted' = [inserted EXCEPT ![p] = FALSE]
    /\ handleAtCall' = [handleAtCall EXCEPT ![p] = HandleState]
    /\ Goto(p, "r_check")
    /\ UNCHANGED <<now, cachedResponses, heap, attempts, cachedResponse,
                   cacheInitError>>

\* (mutant) the Reader without its test for a nil store reference
CacheIsNil_Never(handle) == FALSE

\* cachedResponses.cache == nil
CacheIsNil(handle) == handle.cache = Nil

\* Lines 73-77: the key, and the test of the handle's store reference.
ReaderCheck(p) ==
    /\ pc[p] = "r_check"
    /\ cacheKey' = [cacheKey EXCEPT ![p] = computeCacheKey(pluginsState[p], msg[p])]
    /\ UNCHANGED inserts
    /\ IF CacheIsNil(cachedResponses)
       THEN Return(p, "nil")
       ELSE Goto(p, "r_get") /\ UNCHANGED ret
    /\ UNCHANGED <<shared, kind, msg, pluginsState, cachedResponse, cacheInitError,
                   inserted, handleAtCall>>

\* (mutant) After taken as "not before"
After_OrEqual(t, u) == t >= u

\* (mutant) "after", but no later than the stale window
After_WithinWindow(t, u) == t > u /\ t <= u + StaleResponseTTL

\* time.Time.After
After(t, u) == t > u

\* (mutant) the copy keeps the transaction id of the cached response
Synth_KeepId(copy, query) ==
    [copy EXCEPT !.Response = TRUE, !.Compress = TRUE, !.Question = query.Question]

\* Lines 85-88: the copy of the cached message made to answer query.
Synth(copy, query) ==
    [copy EXCEPT !.Id = query.Id, !.Response = TRUE, !.Compress = TRUE,
                 !.Question = query.Question]

\* (mutant) the grace window counted from the entry's expiration
StaleExpiration_FromEntry(t, expiration) == expiration + StaleResponseTTL

\* Line 91: the expiration given to a stale response.
StaleExpiration(t, expiration) == t + StaleResponseTTL

\* Lines 78-102: the lookup and, on a hit, the synthesized response.  Calling
\* Get through a nil store reference panics.  The copy, its rewrites and the
\* readings of the clock (line 90, line 91, updateTTL) are one step: the
\* lookup time is a single instant.
ReaderGet(p) ==
    /\ pc[p] = "r_get"
    /\ UNCHANGED <<cacheKey, inserts>>
    /\ IF cachedResponses.cache = Nil
       THEN /\ Return(p, "panic")
            /\ UNCHANGED <<heap, pluginsState>>
       ELSE LET entries == Val(cachedResponses.cache).entries
            IN  IF cacheKey[p] \notin DOMAIN entries
                THEN /\ Return(p, "nil")
                     /\ UNCHANGED <<heap, pluginsState>>
                ELSE LET cached == entries[cacheKey[p]]
                         expiration == cached.expiration
                         synth == Synth(CopyMsg(heap, cached.msg), msg[p])
                         copied == CopyHeap(heap, cached.msg)
                     IN  IF After(now, expiration)
                         THEN /\ heap' = updateTTL(copied, synth,
                                                   StaleExpiration(now, expiration), now)
                              /\ pluginsState' =
                                    [pluginsState EXCEPT ![p].sessionData = Ref(synth)]
                              /\ Return(p, "nil")
                         ELSE /\ heap' = updateTTL(copied, synth, expiration, now)
                              /\ pluginsState' =
                                    [pluginsState EXCEPT ![p].synthResponse = Ref(synth),
                                                         ![p].action = PluginsActionSynth,
                                                         ![p].cacheHit = TRUE]
                              /\ Return(p, "nil")
    /\ UNCHANGED <<now, cachedResponses, calls, attempts, kind, msg, cachedResponse,
                   cacheInitError, inserted, handleAtCall>>

\* ------------------------------------------------------------ the Writer
\* What the pipeline may hand to the Writer: a lookup, its upstream response
\* and the configured cache size.  Size 0 is one the store constructor
\* rejects; sizes 1 and 2 differ, and with size 1 a second key evicts.
WriterInputs ==
    ({Lookup(NameLower)} \X {PositiveResponse} \X {0, 1})
        \cup ({Lookup(NameOther)} \X {NegativeResponse} \X {2})
        \cup ({Lookup(NameLower)} \X UncacheableResponses \X {1})

\* The pipeline invokes PluginCacheResponse.Eval on an upstream response.
InvokeWriter(p) ==
    /\ pc[p] = "idle"
    /\ calls < MaxCalls
    /\ \E inp \in WriterInputs, cfg \in Configs :
          /\ msg' = [msg EXCEPT ![p] = ResponseMsg(heap, inp[1], inp[2])]
          /\ heap' = heap \o inp[2].Answer \o inp[2].Ns
          /\ pluginsState' = [pluginsState EXCEPT ![p] =
                                  NewPluginsState(inp[1].dnssec, inp[3], cfg)]
    /\ calls' = calls + 1
    /\ cacheKey' = [cacheKey EXCEPT ![p] = <<>>]
    /\ UNCHANGED inserts
    /\ kind' = [kind EXCEPT ![p] = "writer"]
    /\ ret' = [ret EXCEPT ![p] = "none"]
    /\ inserted' = [inserted EXCEPT ![p] = FALSE]
    /\ handleAtCall' = [handleAtCall EXCEPT ![p] = HandleState]
    /\ cacheInitError' = [cacheInitError EXCEPT ![p] = Nil]
    /\ Goto(p, "w_pre")
    /\ UNCHANGED <<now, cachedResponses, attempts, cachedResponse>>

\* (mutant) the preconditions without the truncation test
IsCacheable_StatusOnly(m) ==
    ~ (m.Rcode # RcodeSuccess /\ m.Rcode # RcodeNameError /\ m.Rcode # RcodeNotAuth)

\* Lines 130-135: the statuses that are cached, and no truncated response.
IsCacheable(m) ==
    /\ ~ (m.Rcode # RcodeSuccess /\ m.Rcode # RcodeNameError /\ m.Rcode # RcodeNotAuth)
    /\ ~ m.Truncated

\* (mutant) the entry expires when it is built
Expiration_Now(t, ttl) == t

\* Line 145: time.Now().Add(ttl).
Expiration(t, ttl) == t + ttl

\* Lines 130-147: the preconditions, the ttl and the entry.
WriterPre(p) ==
    /\ pc[p] = "w_pre"
    /\ cacheKey' = [cacheKey EXCEPT ![p] = computeCacheKey(pluginsState[p], msg[p])]
    /\ UNCHANGED inserts
    /\ IF ~ IsCacheable(msg[p])
       THEN /\ Return(p, "nil")
            /\ UNCHANGED cachedResponse
       ELSE LET ps == pluginsState[p]
                ttl == getMinTTL(heap, msg[p], ps.cacheMinTTL, ps.cacheMaxTTL,
                                 ps.cacheNegMinTTL, ps.cacheNegMaxTTL)
            IN  /\ cachedResponse' = [cachedResponse EXCEPT ![p] =
                                         [expiration |-> Expiration(now, ttl), msg |-> msg[p]]]
                /\ Goto(p, "w_do")
                /\ UNCHANGED ret
    /\ UNCHANGED <<shared, kind, msg, pluginsState, cacheInitError,
                   inserted, handleAtCall>>

\* sync.Once: Do returns at once when done is set; otherwise doSlow takes the
\* mutex m, runs the closure if done is still unset, sets done and releases m.
OnceDone(once) == once.done

\* (mutant) doSlow without the second load of done
OnceMustRun_NoRecheck(once) == TRUE

OnceMustRun(once) == ~ once.done

\* Line 149, Once.Do: the load of done on the fast path.
OnceDo(p) ==
    /\ pc[p] = "w_do"
    /\ UNCHANGED <<cacheKey, inserts>>
    /\ IF OnceDone(cachedResponses.cacheOnce)
       THEN Goto(p, "w_insert")
       ELSE Goto(p, "w_lock")
    /\ UNCHANGED <<shared, kind, msg, pluginsState, cachedResponse, cacheInitError,
                   ret, inserted, handleAtCall>>

\* Once.doSlow: m.Lock() and the second load of done, under m.  When done is
\* still unset the closure starts, otherwise doSlow goes on to release m.
OnceLock(p) ==
    /\ pc[p] = "w_lock"
    /\ UNCHANGED <<cacheKey, inserts>>
    /\ cachedResponses.cacheOnce.m = 0
    /\ cachedResponses' = [cachedResponses EXCEPT !.cacheOnce.m = p]
    /\ IF OnceMustRun(cachedResponses.cacheOnce)
       THEN /\ attempts' = [attempts EXCEPT !.started = @ + 1, !.by = p]
            /\ Goto(p, "w_new")
       ELSE /\ Goto(p, "w_unlock")
            /\ UNCHANGED attempts
    /\ UNCHANGED <<now, heap, calls, kind, msg, pluginsState, cachedResponse,
                   cacheInitError, ret, inserted, handleAtCall>>

\* Lines 150-155, the closure: the store constructor is called; its error is
\* kept in this invocation's cacheInitError, its store is published.
WriterNew(p) ==
    /\ pc[p] = "w_new"
    /\ UNCHANGED <<cacheKey, inserts>>
    /\ LET new == NewSharded(pluginsState[p].cacheSize)
       IN  IF new.err # Nil
           THEN /\ cacheInitError' = [cacheInitError EXCEPT ![p] = new.err]
                /\ UNCHANGED cachedResponses
           ELSE /\ cachedResponses' = [cachedResponses EXCEPT !.cache = new.cache]
                /\ UNCHANGED cacheInitError
    /\ attempts' = [attempts EXCEPT !.finished = @ + 1]
    /\ Goto(p, "w_done")
    /\ UNCHANGED <<now, heap, calls, kind, msg, pluginsState, cachedResponse,
                   ret, inserted, handleAtCall>>

\* Once.doSlow: the deferred done.Store(1).
OnceStoreDone(p) ==
    /\ pc[p] = "w_done"
    /\ UNCHANGED <<cacheKey, inserts>>
    /\ cachedResponses' = [cachedResponses EXCEPT !.cacheOnce.done = TRUE]
    /\ Goto(p, "w_unlock")
    /\ UNCHANGED <<now, heap, calls, attempts, kind, msg, pluginsState, cachedResponse,
                   cacheInitError, ret, inserted, handleAtCall>>

\* Once.doSlow: the deferred m.Unlock(); Do returns.
OnceUnlock(p) ==
    /\ pc[p] = "w_unlock"
    /\ UNCHANGED <<cacheKey, inserts>>
    /\ cachedResponses' = [cachedResponses EXCEPT !.cacheOnce.m = 0]
    /\ Goto(p, "w_insert")
    /\ UNCHANGED <<now, heap, calls, attempts, kind, msg, pluginsState, cachedResponse,
                   cacheInitError, ret, inserted, handleAtCall>>

\* What a call of Insert at line 161 is remembered by: the question and flag
\* the key was derived from, the key, the entry and the entry's records as
\* they stand at the call.
Inserted(p) ==
    [question |-> msg[p].Question[1], dnssec |-> pluginsState[p].dnssec,
     key |-> cacheKey[p], entry |-> cachedResponse[p],
     records |-> Records(heap, cachedResponse[p].msg)]

\* Lines 157-162: the error of this invocation's own construction attempt is
\* returned; otherwise the entry is inserted when the handle holds a store.
WriterInsert(p) ==
    /\ pc[p] = "w_insert"
    /\ UNCHANGED cacheKey
    /\ IF cacheInitError[p] # Nil
       THEN /\ Return(p, "error")
            /\ UNCHANGED <<cachedResponses, inserted, inserts>>
       ELSE /\ IF cachedResponses.cache # Nil
               THEN /\ \E store \in Insert(Val(cachedResponses.cache), cacheKey[p],
                                           cachedResponse[p]) :
                          cachedResponses' = [cachedResponses EXCEPT !.cache = Ref(store)]
                    /\ inserted' = [inserted EXCEPT ![p] = TRUE]
                    /\ inserts' = Append(inserts, Inserted(p))
               ELSE UNCHANGED <<cachedResponses, inserted, inserts>>
            /\ Goto(p, "w_ttl")
            /\ UNCHANGED ret
    /\ UNCHANGED <<now, heap, calls, attempts, kind, msg, pluginsState, cachedResponse,
                   cacheInitError, handleAtCall>>

\* Lines 163-165: the response's own record TTLs are rewritten.
WriterUpdateTTL(p) ==
    /\ pc[p] = "w_ttl"
    /\ UNCHANGED <<cacheKey, inserts>>
    /\ heap' = updateTTL(heap, msg[p], cachedResponse[p].expiration, now)
    /\ Return(p, "nil")
    /\ UNCHANGED <<now, cachedResponses, calls, attempts, kind, msg, pluginsState,
                   cachedResponse, cacheInitError, inserted, handleAtCall>>

\* ------------------------------------------------------------ specification
Next ==
    \/ Tick
    \/ \E p \in Procs : InvokeReader(p)
    \/ \E p \in Procs : ReaderCheck(p)
    \/ \E p \in Procs : ReaderGet(p)
    \/ \E p \in Procs : InvokeWriter(p)
    \/ \E p \in Procs : WriterPre(p)
    \/ \E p \in Procs : OnceDo(p)
    \/ \E p \in Procs : OnceLock(p)
    \/ \E p \in Procs : WriterNew(p)
    \/ \E p \in Procs : OnceStoreDone(p)
    \/ \E p \in Procs : OnceUnlock(p)
    \/ \E p \in Procs : WriterInsert(p)
    \/ \E p \in Procs : WriterUpdateTTL(p)

Spec == Init /\ [][Next]_vars

\* ------------------------------------------------------------ properties
\* What the properties speak of.
Entries == IF cachedResponses.cache = Nil THEN <<>> ELSE Val(cachedResponses.cache).entries

KeyOf(p) == computeCacheKey(pluginsState[p], msg[p])

Finished(p) == pc[p] = "idle" /\ ret[p] # "none"

\* A response that passes the Writer's preconditions.
Passes(m) == m.Rcode \in {RcodeSuccess, RcodeNameError, RcodeNotAuth} /\ ~ m.Truncated

\* A Writer invocation with a cacheable response that began before any
\* construction attempt had completed: one of the racing first writes.
Raced(p) ==
    /\ kind[p] = "writer"
    /\ Passes(msg[p])
    /\ handleAtCall[p] \in {"Uninitialized", "Constructing"}

\* C1: the store constructor is invoked at most once, and a Writer is at its
\* check of the construction outcome, at its insert or beyond only when that
\* one attempt has completed.
C1_SingleConstruction ==
    /\ attempts.started <= 1
    /\ \A p \in Procs :
          (pc[p] \in {"w_insert", "w_ttl"} \/ (Raced(p) /\ Finished(p)))
              => attempts.started = 1 /\ attempts.finished = 1

\* Both tasks are racing first writes, past cacheOnce.Do, about to check the
\* outcome and insert.
C1_Witness ==
    \A p \in Procs : Raced(p) /\ handleAtCall[p] = "Uninitialized" /\ pc[p] = "w_insert"

\* C2: the racing first writes leave exactly one store, of the capacity of the
\* call that constructed it, and all see the same outcome: all insert, or all
\* return a construction error.
C2_ConsistentOutcome ==
    (\A p \in Procs : Raced(p) /\ Finished(p))
        => /\ attempts.started = 1
           /\ \/ /\ cachedResponses.cache # Nil
                 /\ Val(cachedResponses.cache).capacity = pluginsState[attempts.by].cacheSize
                 /\ \A p \in Procs : ret[p] = "nil" /\ inserted[p]
              \/ /\ cachedResponses.cache = Nil
                 /\ \A p \in Procs : ret[p] = "error" /\ ~ inserted[p]

\* C3: a Writer invocation with a cacheable response and a valid capacity that
\* begins after a failed construction attempt constructs the store again and
\* inserts its entry.
C3_RetryAfterFailure ==
    \A p \in Procs :
        (/\ kind[p] = "writer"
         /\ Passes(msg[p])
         /\ handleAtCall[p] = "Failed"
         /\ pluginsState[p].cacheSize > 0
         /\ Finished(p))
            => attempts.started >= 2 /\ cachedResponses.cache # Nil /\ inserted[p]

\* Task p's step is the insert of an entry under key k.
InsertsAt(p, k) ==
    /\ pc[p] = "w_insert"
    /\ pc'[p] = "w_ttl"
    /\ inserted'[p]
    /\ KeyOf(p) = k

\* C4: an entry that a step neither replaces by an insert for its key nor
\* evicts is the same after the step, and so are the records it holds.
C4_StoredEntryNotAliased ==
    [][\A k \in DOMAIN Entries :
          (k \in DOMAIN Entries' /\ ~ \E p \in Procs : InsertsAt(p, k))
              => /\ Entries'[k] = Entries[k]
                 /\ Records(heap', Entries'[k].msg) = Records(heap, Entries[k].msg)]_vars

\* The three outcomes of a Writer invocation.
Cached(p) == Passes(msg[p]) /\ inserted[p] /\ ret[p] = "nil"

Skipped(p) == ~ Passes(msg[p]) /\ ~ inserted[p] /\ ret[p] = "nil"

ConstructionError(p) == Passes(msg[p]) /\ ~ inserted[p] /\ ret[p] = "error"

\* C5: a Writer invocation that has returned ended as cached, as skipped or
\* as a construction error.
C5_ThreeOutcomes ==
    \A p \in Procs :
        (kind[p] = "writer" /\ Finished(p))
            => Cached(p) \/ Skipped(p) \/ ConstructionError(p)

\* C6: the step of a Writer on a truncated response, or on one whose status is
\* none of success, name-error and not-authoritative, returns nil and changes
\* neither the handle (store, guard) nor any record, and constructs nothing.
C6_UncacheableNoOp ==
    [][\A p \in Procs :
          (/\ pc[p] = "w_pre"
           /\ pc'[p] # "w_pre"
           /\ \/ msg[p].Truncated
              \/ msg[p].Rcode \notin {RcodeSuccess, RcodeNameError, RcodeNotAuth})
              => /\ pc'[p] = "idle"
                 /\ ret'[p] = "nil"
                 /\ ~ inserted'[p]
                 /\ cachedResponses' = cachedResponses
                 /\ attempts' = attempts
                 /\ heap' = heap]_vars

\* One Writer has returned from a truncated response and one from a
\* server failure.
C6_Witness ==
    \E p, q \in Procs :
        /\ kind[p] = "writer" /\ Finished(p) /\ msg[p].Truncated
        /\ kind[q] = "writer" /\ Finished(q) /\ ~ msg[q].Truncated /\ msg[q].Rcode = 2
        /\ ret[p] = "nil" /\ ret[q] = "nil"

\* Task p's step is the Reader's lookup finding an entry under its key.
LookupHit(p) ==
    /\ pc[p] = "r_get"
    /\ pc'[p] = "idle"
    /\ KeyOf(p) \in DOMAIN Entries

HitExpiration(p) == Entries[KeyOf(p)].expiration

IsStaleResult(ps) == ps.sessionData # Nil

IsFreshResult(ps) == ps.action = PluginsActionSynth /\ ps.synthResponse # Nil /\ ps.cacheHit

\* C7 as claimed: a hit is stale exactly when now >= expiration and fresh
\* exactly when now < expiration.
C7_StaleAtOrAfter ==
    [][\A p \in Procs :
          LookupHit(p)
              => /\ IsStaleResult(pluginsState'[p]) <=> now >= HitExpiration(p)
                 /\ IsFreshResult(pluginsState'[p]) <=> now < HitExpiration(p)]_vars

\* C7 as amended: a hit is stale exactly when now > expiration and fresh
\* exactly when now <= expiration.
C7_StaleStrictlyAfter ==
    [][\A p \in Procs :
          LookupHit(p)
              => /\ IsStaleResult(pluginsState'[p]) <=> now > HitExpiration(p)
                 /\ IsFreshResult(pluginsState'[p]) <=> now <= HitExpiration(p)]_vars

\* A Reader has answered from an entry at the very instant of its expiration:
\* a fresh hit whose records have no time left.
C7_Witness ==
    \E p \in Procs :
        /\ kind[p] = "reader" /\ Finished(p)
        /\ IsFreshResult(pluginsState[p])
        /\ LET synth == Val(pluginsState[p].synthResponse)
           IN  /\ Len(RRAddrs(synth)) > 0
               /\ \A a \in Range(RRAddrs(synth)) : heap[a].Ttl = 0

\* C8: a hit that is not stale marks the query as answered by a copy of the
\* stored message that carries the query's id, the response flag, the query's
\* question section and, in every record, the time left until the entry's
\* expiration; the stale slot is untouched.
C8_FreshHitAnswer ==
    [][\A p \in Procs :
          (LookupHit(p) /\ now <= HitExpiration(p))
              => LET ps == pluginsState'[p]
                     stored == Entries[KeyOf(p)].msg
                     synth == Val(ps.synthResponse)
                 IN  /\ ret'[p] = "nil"
                     /\ ps.action = PluginsActionSynth
                     /\ ps.synthResponse # Nil
                     /\ ps.cacheHit
                     /\ ps.sessionData = pluginsState[p].sessionData
                     /\ synth.Id = msg[p].Id
                     /\ synth.Response
                     /\ synth.Compress
                     /\ synth.Question = msg[p].Question
                     /\ synth.Rcode = stored.Rcode
                     /\ Len(synth.Answer) = Len(stored.Answer)
                     /\ Len(synth.Ns) = Len(stored.Ns)
                     /\ Range(RRAddrs(synth)) \cap Range(RRAddrs(stored)) = {}
                     /\ \A i \in 1..Len(RRAddrs(stored)) :
                           /\ heap'[RRAddrs(synth)[i]].Rdata = heap[RRAddrs(stored)[i]].Rdata
                           /\ heap'[RRAddrs(synth)[i]].Ttl = HitExpiration(p) - now]_vars

\* A Reader asking for "A" has been answered from the entry written for "a",
\* with time left on its records.
C8_Witness ==
    \E p \in Procs :
        /\ kind[p] = "reader" /\ Finished(p)
        /\ IsFreshResult(pluginsState[p])
        /\ msg[p].Question[1].Name = NameUpper
        /\ LET synth == Val(pluginsState[p].synthResponse)
           IN  /\ synth.Id = 7
               /\ Len(RRAddrs(synth)) = 2
               /\ \A a \in Range(RRAddrs(synth)) : heap[a].Ttl = 1

\* C9: a stale hit puts a copy whose records carry the 30 second grace window
\* into the stale slot, leaves action, synthesized response and cache-hit
\* flag as they were, and changes neither the handle and its store nor any
\* record that existed.
C9_StaleHitCandidate ==
    [][\A p \in Procs :
          (LookupHit(p) /\ now > HitExpiration(p))
              => LET ps == pluginsState'[p]
                     stored == Entries[KeyOf(p)].msg
                     synth == Val(ps.sessionData)
                 IN  /\ ret'[p] = "nil"
                     /\ ps.sessionData # Nil
                     /\ ps.action = pluginsState[p].action
                     /\ ps.synthResponse = pluginsState[p].synthResponse
                     /\ ps.cacheHit = pluginsState[p].cacheHit
                     /\ synth.Id = msg[p].Id
                     /\ Len(RRAddrs(synth)) = Len(RRAddrs(stored))
                     /\ \A a \in Range(RRAddrs(synth)) : heap'[a].Ttl = 30
                     /\ cachedResponses' = cachedResponses
                     /\ SubSeq(heap', 1, Len(heap)) = heap]_vars

\* A Reader has returned with a stale candidate and the query unanswered.
C9_Witness ==
    \E p \in Procs :
        /\ kind[p] = "reader" /\ Finished(p)
        /\ IsStaleResult(pluginsState[p])
        /\ ~ pluginsState[p].cacheHit
        /\ pluginsState[p].action = PluginsActionContinue
        /\ \A a \in Range(RRAddrs(Val(pluginsState[p].sessionData))) : heap[a].Ttl = 30
        /\ KeyOf(p) \in DOMAIN Entries

\* C10: a Reader returns nil whenever it returns; no step of a Reader changes
\* the handle or its store; and a Reader that finds no store or no entry
\* leaves the query's state and every record as they were.
C10_LookupNeverFails ==
    [][\A p \in Procs :
          (pc[p] \in {"r_check", "r_get"} /\ pc'[p] # pc[p])
              => /\ cachedResponses' = cachedResponses
                 /\ pc'[p] = "idle" => ret'[p] = "nil"
                 /\ (pc'[p] = "idle" /\ KeyOf(p) \notin DOMAIN Entries)
                       => pluginsState'[p] = pluginsState[p] /\ heap' = heap]_vars

\* A Reader has missed in a store that is ready and holds another key.
C10_Witness ==
    \E p \in Procs :
        /\ kind[p] = "reader" /\ Finished(p)
        /\ handleAtCall[p] = "Ready"
        /\ pluginsState[p] = NewPluginsState(FALSE, 1, CHOOSE cfg \in Configs : TRUE)
        /\ DOMAIN Entries # {}
        /\ KeyOf(p) \notin DOMAIN Entries

\* C11: a handle that holds a store keeps that store and its capacity in
\* every step, and none constructs again; a handle gets its store only from
\* the closure of a Writer, empty and of the capacity that Writer asked for.
C11_ReadyIsTerminal ==
    [][/\ cachedResponses.cache # Nil
            => /\ cachedResponses'.cache # Nil
               /\ Val(cachedResponses'.cache).capacity = Val(cachedResponses.cache).capacity
               /\ attempts'.started = attempts.started
       /\ (cachedResponses.cache = Nil /\ cachedResponses'.cache # Nil)
            => \E p \in Procs :
                  /\ kind[p] = "writer"
                  /\ pc[p] = "w_new"
                  /\ pc'[p] # "w_new"
                  /\ Val(cachedResponses'.cache).capacity = pluginsState[p].cacheSize
                  /\ DOMAIN Entries' = {}]_vars

\* A Writer asking for capacity 2 began with the store ready, inserted and
\* returned, and the store still has the capacity 1 it was constructed with.
C11_Witness ==
    \E p \in Procs :
        /\ kind[p] = "writer" /\ Finished(p) /\ inserted[p]
        /\ handleAtCall[p] = "Ready"
        /\ pluginsState[p].cacheSize = 2
        /\ cachedResponses.cache # Nil
        /\ Val(cachedResponses.cache).capacity = 1

\* ------------------------------------------------------------ key derivation
\* The questions the key is derived from below: names on both sides of the
\* letter ranges (64 '@', 91 '[', 96 '`', 123 '{'), names that differ only in
\* case, types and classes whose two bytes differ in either position.
KeyNames == {<<97>>, <<65>>, <<64>>, <<96>>, <<91>>, <<123>>, <<97, 66>>, <<65, 98>>}
KeyQtypes == {1, 256, 257}
KeyQclasses == {1, 256}
KeyLookups ==
    {[question |-> Question(n, t, c), dnssec |-> d] :
        n \in KeyNames, t \in KeyQtypes, c \in KeyQclasses, d \in BOOLEAN}

\* Two invocations, each a Reader or a Writer, about to derive the key of
\* what the pipeline handed them; the Writer's response holds no record.
KeyInit ==
    /\ now = 0
    /\ cachedResponses = [cache |-> Nil, cacheMu |-> 0,
                          cacheOnce |-> [done |-> FALSE, m |-> 0]]
    /\ heap = <<>>
    /\ calls = Cardinality(Procs)
    /\ attempts = [started |-> 0, finished |-> 0, by |-> 0]
    /\ kind \in [Procs -> {"reader", "writer"}]
    /\ pc = [p \in Procs |-> IF kind[p] = "reader" THEN "r_check" ELSE "w_pre"]
    /\ \E ls \in [Procs -> KeyLookups], cfg \in Configs :
          /\ msg = [p \in Procs |->
                       IF kind[p] = "reader" THEN QueryMsg(ls[p])
                       ELSE ResponseMsg(<<>>, ls[p],
                                [Rcode |-> RcodeSuccess, Truncated |-> FALSE,
                                 Answer |-> <<>>, Ns |-> <<>>])]
          /\ pluginsState = [p \in Procs |-> NewPluginsState(ls[p].dnssec, 1, cfg)]
    /\ cachedResponse = [p \in Procs |-> [expiration |-> 0, msg |-> NoMsg]]
    /\ cacheInitError = [p \in Procs |-> Nil]
    /\ ret = [p \in Procs |-> "none"]
    /\ inserted = [p \in Procs |-> FALSE]
    /\ handleAtCall = [p \in Procs |-> "Uninitialized"]
    /\ cacheKey = [p \in Procs |-> <<>>]
    /\ inserts = <<>>

KeyNext ==
    \/ \E p \in Procs : ReaderCheck(p)
    \/ \E p \in Procs : WriterPre(p)

KeySpec == KeyInit /\ [][KeyNext]_vars

IsLetter(b) == (b >= 65 /\ b <= 90) \/ (b >= 97 /\ b <= 122)

\* Two names are equal up to ASCII letter case.
EqualFold(a, b) ==
    /\ Len(a) = Len(b)
    /\ \A i \in 1..Len(a) :
          \/ a[i] = b[i]
          \/ IsLetter(a[i]) /\ IsLetter(b[i]) /\ (a[i] - b[i] = 32 \/ b[i] - a[i] = 32)

\* Tasks p and q were handed the same lookup: names equal up to case, equal
\* type, equal class, equal flag.
SameLookup(p, q) ==
    /\ EqualFold(msg[p].Question[1].Name, msg[q].Question[1].Name)
    /\ msg[p].Question[1].Qtype = msg[q].Question[1].Qtype
    /\ msg[p].Question[1].Qclass = msg[q].Question[1].Qclass
    /\ pluginsState[p].dnssec = pluginsState[q].dnssec

\* C12: two invocations that have derived their keys hold the same key exactly
\* when their questions have names equal up to ASCII letter case, equal type
\* and equal class and their flags are equal; the key is a function of these.
C12_KeyIffSameLookup ==
    \A p, q \in Procs :
        (cacheKey[p] # <<>> /\ cacheKey[q] # <<>>)
            => (cacheKey[p] = cacheKey[q] <=> SameLookup(p, q))

C12_Witness ==
    \E p, q \in Procs :
        /\ kind[p] = "reader" /\ kind[q] = "writer"
        /\ msg[p].Question[1].Name = <<97, 66>>
        /\ msg[q].Question[1].Name = <<65, 98>>
        /\ msg[p].Question[1].Qtype = 257 /\ pluginsState[p].dnssec
        /\ cacheKey[p] # <<>> /\ cacheKey[p] = cacheKey[q]

\* ------------------------------------------------------------ a warm cache
\* The state an earlier Writer invocation leaves behind: at time 0 it was
\* handed WarmResponse for Lookup(NameLower) with cache size 2, constructed
\* the store, inserted its entry and rewrote the TTL of its record.  The
\* invocations counted by calls are those that follow.
WarmResponse ==
    [Rcode |-> RcodeSuccess, Truncated |-> FALSE, Answer |-> <<RR(1, "w")>>, Ns |-> <<>>]

WarmMsg == ResponseMsg(<<>>, Lookup(NameLower), WarmResponse)

WarmPluginsState == NewPluginsState(FALSE, 2, CHOOSE cfg \in Configs : TRUE)

WarmEntry ==
    [expiration |-> Expiration(0, getMinTTL(WarmResponse.Answer, WarmMsg,
                                             WarmPluginsState.cacheMinTTL,
                                             WarmPluginsState.cacheMaxTTL,
                                             WarmPluginsState.cacheNegMinTTL,
                                             WarmPluginsState.cacheNegMaxTTL)),
     msg |-> WarmMsg]

WarmKey == computeCacheKey(WarmPluginsState, WarmMsg)

\* A lookup time later than the warm entry's expiration plus the stale window.
WarmLate == WarmEntry.expiration + StaleResponseTTL + 1

WarmInit ==
    /\ now \in {0, WarmLate}
    /\ \E store \in Insert(Val(NewSharded(WarmPluginsState.cacheSize).cache),
                            WarmKey, WarmEntry) :
          cachedResponses = [cache |-> Ref(store), cacheMu |-> 0,
                             cacheOnce |-> [done |-> TRUE, m |-> 0]]
    /\ heap = updateTTL(WarmResponse.Answer, WarmMsg, WarmEntry.expiration, 0)
    /\ calls = 0
    /\ attempts = [started |-> 1, finished |-> 1, by |-> 1]
    /\ pc = [p \in Procs |-> "idle"]
    /\ kind = [p \in Procs |-> "none"]
    /\ msg = [p \in Procs |-> NoMsg]
    /\ pluginsState = [p \in Procs |-> NoPluginsState]
    /\ cachedResponse = [p \in Procs |-> [expiration |-> 0, msg |-> NoMsg]]
    /\ cacheInitError = [p \in Procs |-> Nil]
    /\ ret = [p \in Procs |-> "none"]
    /\ inserted = [p \in Procs |-> FALSE]
    /\ handleAtCall = [p \in Procs |-> "Uninitialized"]
    /\ cacheKey = [p \in Procs |-> <<>>]
    /\ inserts = <<[question |-> WarmMsg.Question[1], dnssec |-> WarmPluginsState.dnssec,
                    key |-> WarmKey, entry |-> WarmEntry,
                    records |-> WarmResponse.Answer]>>

\* With the guard's done flag set, Do returns on its fast path: the steps of
\* doSlow and of the closure are never taken.
WarmNext ==
    \/ Tick
    \/ \E p \in Procs : InvokeReader(p)
    \/ \E p \in Procs : ReaderCheck(p)
    \/ \E p \in Procs : ReaderGet(p)
    \/ \E p \in Procs : InvokeWriter(p)
    \/ \E p \in Procs : WriterPre(p)
    \/ \E p \in Procs : OnceDo(p)
    \/ \E p \in Procs : WriterInsert(p)
    \/ \E p \in Procs : WriterUpdateTTL(p)

SpecWarm == WarmInit /\ [][WarmNext]_vars

\* The messages task q holds in its synthesized-response and stale-candidate
\* slots.
ResultMsgs(q) ==
    {Val(slot) : slot \in {pluginsState[q].synthResponse, pluginsState[q].sessionData} \ {Nil}}

\* The step in which Reader p answers from a fresh entry.
FreshHitStep(p) ==
    /\ kind[p] = "reader"
    /\ pc[p] = "r_get"
    /\ pc'[p] = "idle"
    /\ pluginsState'[p].synthResponse # Nil

\* C13: when a Reader answers from a fresh entry, its message holds records
\* of its own, at addresses no stored entry and no other task's result use;
\* the step leaves the store, the stored entries' records and header fields,
\* and every other task's result message and its records as they were.
C13_IndependentCopies ==
    [][\A p \in Procs :
          FreshHitStep(p) =>
              LET mine == Range(RRAddrs(Val(pluginsState'[p].synthResponse)))
              IN  /\ Entries' = Entries
                  /\ \A k \in DOMAIN Entries :
                        /\ Records(heap', Entries[k].msg) = Records(heap, Entries[k].msg)
                        /\ mine \cap Range(RRAddrs(Entries[k].msg)) = {}
                  /\ \A q \in Procs \ {p} :
                        /\ pluginsState'[q] = pluginsState[q]
                        /\ \A m \in ResultMsgs(q) :
                              /\ Records(heap', m) = Records(heap, m)
                              /\ mine \cap Range(RRAddrs(m)) = {}]_vars

\* Two Readers have answered from the warm entry at different times: each
\* holds its own TTL, and the entry keeps its id and question.
C13_Witness ==
    \E p, q \in Procs :
        /\ p # q
        /\ Finished(p) /\ Finished(q)
        /\ pluginsState[p].cacheHit /\ pluginsState[q].cacheHit
        /\ Records(heap, Val(pluginsState[p].synthResponse)) = <<RR(1, "w")>>
        /\ Records(heap, Val(pluginsState[q].synthResponse)) = <<RR(0, "w")>>
        /\ WarmKey \in DOMAIN Entries
        /\ Entries[WarmKey] = WarmEntry
        /\ Records(heap, WarmEntry.msg) = <<RR(1, "w")>>

\* ------------------------------------------------------------ write, then read
\* The insert remembered as rec was made for the lookup task p was handed.
SameQuestion(rec, p) ==
    /\ EqualFold(rec.question.Name, msg[p].Question[1].Name)
    /\ rec.question.Qtype = msg[p].Question[1].Qtype
    /\ rec.question.Qclass = msg[p].Question[1].Qclass
    /\ rec.dnssec = pluginsState[p].dnssec

Matches(p) == {i \in 1..Len(inserts) : SameQuestion(inserts[i], p)}

\* The latest insert made for the lookup of task p.
LastInsert(p) == inserts[CHOOSE i \in Matches(p) : \A j \in Matches(p) : j <= i]

StillStored(entry) == \E k \in DOMAIN Entries : Entries[k] = entry

Rdatas(records) == [i \in 1..Len(records) |-> records[i].Rdata]

\* C14: once an insert has been made the Reader finds a store and goes on to
\* the lookup; and when the latest insert for the Reader's lookup is still
\* stored and the lookup time is before its expiration E, the lookup is a
\* fresh hit: the answer carries the inserted records with TTL E - now, the
\* id and question of the query, and the query is marked answered.
C14_WriteThenRead ==
    [][\A p \in Procs :
          /\ (kind[p] = "reader" /\ pc[p] = "r_check" /\ pc'[p] # "r_check"
                 /\ inserts # <<>>)
                => pc'[p] = "r_get"
          /\ (kind[p] = "reader" /\ pc[p] = "r_get" /\ pc'[p] # "r_get"
                 /\ Matches(p) # {}
                 /\ StillStored(LastInsert(p).entry)
                 /\ now < LastInsert(p).entry.expiration)
                => /\ ret'[p] = "nil"
                   /\ pluginsState'[p].synthResponse # Nil
                   /\ pluginsState'[p].action = PluginsActionSynth
                   /\ pluginsState'[p].cacheHit
                   /\ pluginsState'[p].sessionData = Nil
                   /\ LET synth == Val(pluginsState'[p].synthResponse)
                           served == Records(heap', synth)
                       IN  /\ synth.Id = msg[p].Id
                           /\ synth.Response
                           /\ synth.Question = msg[p].Question
                           /\ synth.Rcode = LastInsert(p).entry.msg.Rcode
                           /\ Rdatas(served) = Rdatas(LastInsert(p).records)
                           /\ \A i \in 1..Len(served) :
                                 served[i].Ttl = LastInsert(p).entry.expiration - now]_vars

\* A Writer inserted for the lower-case name at time 0 and a Reader asking
\* for the upper-case name was answered with the time left.
C14_Witness ==
    \E p, q \in Procs :
        /\ kind[q] = "writer" /\ Finished(q) /\ inserted[q]
        /\ msg[q].Question[1].Name = NameLower
        /\ kind[p] = "reader" /\ Finished(p)
        /\ msg[p].Question[1].Name = NameUpper
        /\ pluginsState[p].cacheHit
        /\ Len(inserts) = 1
        /\ Records(heap, Val(pluginsState[p].synthResponse))
              = <<RR(cachedResponse[q].expiration - now, "x"),
                  RR(cachedResponse[q].expiration - now, "y")>>
        /\ cachedResponse[q].expiration - now > 0

\* ------------------------------------------------------------ the entry's expiration
\* Responses of every class: positive ones whose smallest TTL is 0, 1 or
\* above every maximum, negative ones with and without records.
TtlResponses ==
    { [Rcode |-> RcodeSuccess, Truncated |-> FALSE, Answer |-> <<RR(0, "x")>>, Ns |-> <<>>],
      [Rcode |-> RcodeSuccess, Truncated |-> FALSE,
       Answer |-> <<RR(3, "x"), RR(1, "y")>>, Ns |-> <<>>],
      [Rcode |-> RcodeSuccess, Truncated |-> FALSE, Answer |-> <<RR(5, "x")>>, Ns |-> <<>>],
      [Rcode |-> RcodeSuccess, Truncated |-> FALSE, Answer |-> <<>>, Ns |-> <<>>],
      [Rcode |-> RcodeNameError, Truncated |-> FALSE, Answer |-> <<>>, Ns |-> <<RR(0, "soa")>>],
      [Rcode |-> RcodeNameError, Truncated |-> FALSE, Answer |-> <<>>, Ns |-> <<RR(3, "soa")>>],
      [Rcode |-> RcodeNotAuth, Truncated |-> FALSE, Answer |-> <<>>, Ns |-> <<>>] }

\* Configured bounds with each minimum 0 or 1 and no maximum below its
\* minimum.
TtlConfigs ==
    {[cacheMinTTL |-> a, cacheMaxTTL |-> b, cacheNegMinTTL |-> c, cacheNegMaxTTL |-> d] :
        a \in {0, 1}, b \in {1, 2}, c \in {0, 1}, d \in {1, 2}}

\* One Writer invocation, handed any of these responses under any of these
\* configurations at any time, is about to test the preconditions.
TtlInit ==
    /\ now \in 0..MaxTime
    /\ cachedResponses = [cache |-> Nil, cacheMu |-> 0,
                          cacheOnce |-> [done |-> FALSE, m |-> 0]]
    /\ calls = 1
    /\ attempts = [started |-> 0, finished |-> 0, by |-> 0]
    /\ \E w \in Procs, r \in TtlResponses, cfg \in TtlConfigs :
          /\ kind = [p \in Procs |-> IF p = w THEN "writer" ELSE "none"]
          /\ pc = [p \in Procs |-> IF p = w THEN "w_pre" ELSE "idle"]
          /\ heap = r.Answer \o r.Ns
          /\ msg = [p \in Procs |->
                       IF p = w THEN ResponseMsg(<<>>, Lookup(NameLower), r) ELSE NoMsg]
          /\ pluginsState = [p \in Procs |->
                                IF p = w THEN NewPluginsState(FALSE, 1, cfg)
                                ELSE NoPluginsState]
    /\ cachedResponse = [p \in Procs |-> [expiration |-> 0, msg |-> NoMsg]]
    /\ cacheInitError = [p \in Procs |-> Nil]
    /\ ret = [p \in Procs |-> "none"]
    /\ inserted = [p \in Procs |-> FALSE]
    /\ handleAtCall = [p \in Procs |-> "Uninitialized"]
    /\ cacheKey = [p \in Procs |-> <<>>]
    /\ inserts = <<>>

\* The Writer runs to its end with the clock standing still, so that the
\* time of its insert is the time its entry was built.
TtlNext ==
    \/ \E p \in Procs : WriterPre(p)
    \/ \E p \in Procs : OnceDo(p)
    \/ \E p \in Procs : OnceLock(p)
    \/ \E p \in Procs : WriterNew(p)
    \/ \E p \in Procs : OnceStoreDone(p)
    \/ \E p \in Procs : OnceUnlock(p)
    \/ \E p \in Procs : WriterInsert(p)
    \/ \E p \in Procs : WriterUpdateTTL(p)

TtlSpec == TtlInit /\ [][TtlNext]_vars

\* The step in which Writer p inserts its entry.
InsertStep(p) == kind[p] = "writer" /\ pc[p] = "w_insert" /\ inserted'[p]

\* The configured minimum of the class of the response task p was handed.
Floor(p) ==
    IF msg[p].Rcode = RcodeSuccess /\ msg[p].Answer # <<>>
    THEN pluginsState[p].cacheMinTTL
    ELSE pluginsState[p].cacheNegMinTTL

LookupStep(p) ==
    /\ kind[p] = "reader"
    /\ pc[p] = "r_get"
    /\ pc'[p] # "r_get"
    /\ cachedResponses.cache # Nil

\* C16 as stated: a lookup produces a stale candidate only while the lookup
\* time is within the stale window after the expiration of the entry found.
C16_StaleOnlyWithinWindow ==
    [][\A p \in Procs :
          (LookupStep(p) /\ pluginsState'[p].sessionData # Nil)
              => now <= Entries[cacheKey[p]].expiration + StaleResponseTTL]_vars

\* C16, amended: a lookup produces a stale candidate exactly when it finds
\* an entry whose expiration has passed, however long ago; the stale window
\* is the TTL of the candidate's records, counted from the lookup time.
C16_StaleHoweverLate ==
    [][\A p \in Procs :
          LookupStep(p) =>
              /\ pluginsState'[p].sessionData # Nil
                    <=> (cacheKey[p] \in DOMAIN Entries
                           /\ now > Entries[cacheKey[p]].expiration)
              /\ pluginsState'[p].sessionData # Nil
                    => /\ \A rr \in Range(Records(heap', Val(pluginsState'[p].sessionData))) :
                             rr.Ttl = StaleResponseTTL
                       /\ pluginsState'[p].synthResponse = Nil
                       /\ ~ pluginsState'[p].cacheHit]_vars

\* A Reader was handed a stale candidate for the warm entry at a time later
\* than the entry's expiration plus the stale window.
C16_Witness ==
    \E p \in Procs :
        /\ kind[p] = "reader" /\ Finished(p)
        /\ pluginsState[p].sessionData # Nil
        /\ WarmKey \in DOMAIN Entries /\ Entries[WarmKey] = WarmEntry
        /\ cacheKey[p] = WarmKey
        /\ now > WarmEntry.expiration + StaleResponseTTL
        /\ Records(heap, Val(pluginsState[p].sessionData)) = <<RR(StaleResponseTTL, "w")>>

\* ------------------------------------------------------------ the answer served
\* The messages the step gives task p in either result slot.
Served(p) ==
    {Val(slot) : slot \in {pluginsState'[p].synthResponse, pluginsState'[p].sessionData} \ {Nil}}

\* C17: whatever message a Reader's lookup places in the synthesized-response
\* slot or the stale-candidate slot, an insert was made earlier for a question
\* with the same name up to case, type, class and flag as the query, and the
\* message is a copy of the response of the latest such insert: its status
\* and its records' data, section by section.
C17_ServesLatestInsertForQuestion ==
    [][\A p \in Procs :
          LookupStep(p) =>
              \A m \in Served(p) :
                  /\ Matches(p) # {}
                  /\ m.Rcode = LastInsert(p).entry.msg.Rcode
                  /\ Len(m.Answer) = Len(LastInsert(p).entry.msg.Answer)
                  /\ Len(m.Ns) = Len(LastInsert(p).entry.msg.Ns)
                  /\ Rdatas(Records(heap', m)) = Rdatas(LastInsert(p).records)]_vars

\* After the warm entry a Writer inserted another response for the same
\* question, and a Reader asking in upper case was served the later one.
C17_Witness ==
    \E p \in Procs :
        /\ kind[p] = "reader" /\ Finished(p)
        /\ msg[p].Question[1].Name = NameUpper
        /\ Len(inserts) = 2
        /\ Matches(p) = {1, 2}
        /\ Rdatas(inserts[1].records) = <<"w">>
        /\ ResultMsgs(p) # {}
        /\ \A m \in ResultMsgs(p) : Rdatas(Records(heap, m)) = <<"x", "y">>

\* ------------------------------------------------------------ the store reference
\* Task p is about to read cachedResponses.cache in the Reader (line 75 or
\* line 78).
ReadsStoreReference(p) == kind[p] = "reader" /\ pc[p] \in {"r_check", "r_get"}

\* Task p is inside the guard's closure and about to assign
\* cachedResponses.cache (line 154).
WritesStoreReference(p) ==
    /\ kind[p] = "writer"
    /\ pc[p] = "w_new"
    /\ NewSharded(pluginsState[p].cacheSize).err = Nil

\* The mutexes of the handle that task p holds.
LocksHeld(p) ==
    (IF cachedResponses.cacheMu = p THEN {"cacheMu"} ELSE {})
        \cup (IF cachedResponses.cacheOnce.m = p THEN {"cacheOnce.m"} ELSE {})

\* C18: a Reader's read of the store reference and a Writer's assignment of
\* it are never both about to happen unless the two tasks are ordered by a
\* mutex of the handle; the Reader takes none and never consults the guard.
C18_NoRaceOnStoreReference ==
    \A r, w \in Procs :
        (r # w /\ ReadsStoreReference(r) /\ WritesStoreReference(w))
            => LocksHeld(r) \cap LocksHeld(w) # {}
====
